---- MODULE Spec2Model ----
(***************************************************************************)
(* EduQuest (SmartLearning): the daily-question delivery scheduler of      *)
(* server/index.ts, the profile store of server/storage.ts, the profile    *)
(* validation of shared/schema.ts, the HTTP handlers of server/routes, the *)
(* registration of server/auth, the email dispatcher and the email queue.  *)
(*                                                                         *)
(* Time is the server's wall clock in whole minutes since midnight of day  *)
(* 0.  Every await of the source is a point where other handlers, timers   *)
(* and the clock may run, so every await ends one action and starts the    *)
(* next.                                                                   *)
(***************************************************************************)
EXTENDS Integers, Sequences, FiniteSets, TLC

VARIABLES
    now,        \* wall clock, minutes since midnight of day 0
    nextTick,   \* minute at which the setInterval timer fires next
    users,      \* users table: user_id -> row
    rows,       \* student_subjects table: sequence of rows
    scans,      \* invocations of sendDailyQuestionsToAllUsers, by number
    emails,     \* every email the provider accepted
    resp,       \* the last HTTP response
    nreq,       \* number of HTTP requests served
    stripe,     \* the payment processor: customers and subscriptions created
                \* and the customer of each subscription
    tc          \* the part studied alone: one evaluation of a function
                \* (inputs and result), the calls of the email dispatcher,
                \* the requests in flight, or the email queue

vars == <<now, nextTick, users, rows, scans, emails, resp, nreq, stripe, tc>>

----------------------------------------------------------------------------
(* Bounds of the model *)

NUsers == 2
MaxElapsed == 5
MaxRows == 3
MaxRequests == 3
MaxProfiles == 1

(* Program constants *)

TickInterval == 5
QuestionsPerSubject == 20
TrialDays == 7

Users == 1..NUsers

----------------------------------------------------------------------------
(* JavaScript Date, to the minute *)

getHours(t) == (t % 1440) \div 60
getMinutes(t) == t % 60
\* new Date().toISOString().split('T')[0], and what a `date` column keeps of
\* an ISO timestamp: the day number
toISODate(t) == t \div 1440

----------------------------------------------------------------------------
(* Strings are sequences of one-character strings *)

Digits == <<"0", "1", "2", "3", "4", "5", "6", "7", "8", "9">>

IsDigit(c) == \E i \in 1..10 : Digits[i] = c
DigitValue(c) == (CHOOSE i \in 1..10 : Digits[i] = c) - 1

\* the index of the first occurrence of sep in s, 0 when there is none
IndexOf(s, sep) ==
    IF \E i \in 1..Len(s) : s[i] = sep
    THEN CHOOSE i \in 1..Len(s) : s[i] = sep /\ \A j \in 1..(i - 1) : s[j] # sep
    ELSE 0

\* String.prototype.split(sep) for a one-character separator
RECURSIVE split(_, _)
split(s, sep) ==
    LET i == IndexOf(s, sep)
    IN  IF i = 0 THEN <<s>>
        ELSE <<SubSeq(s, 1, i - 1)>> \o split(SubSeq(s, i + 1, Len(s)), sep)

\* the value of a string of digits
RECURSIVE DigitsValue(_)
DigitsValue(s) ==
    IF s = <<>> THEN 0
    ELSE 10 * DigitsValue(SubSeq(s, 1, Len(s) - 1)) + DigitValue(s[Len(s)])

\* the longest prefix of s made of digits
RECURSIVE DigitPrefix(_)
DigitPrefix(s) ==
    IF s = <<>> \/ ~IsDigit(Head(s)) THEN <<>>
    ELSE <<Head(s)>> \o DigitPrefix(Tail(s))

\* parseInt(s): the leading digits' value; NaN (here -1, equal to no hour and
\* no minute) when s does not start with a digit
parseInt(s) ==
    IF DigitPrefix(s) = <<>> THEN -1 ELSE DigitsValue(DigitPrefix(s))

----------------------------------------------------------------------------
(* shared/schema.ts: insertProfileSchema *)

\* /^(0[1-9]|1[0-2]):[0-5][0-9] (AM|PM)$/
preferredEmailTimeRegex(s) ==
    /\ Len(s) = 8
    /\ \/ s[1] = "0" /\ s[2] \in {"1", "2", "3", "4", "5", "6", "7", "8", "9"}
       \/ s[1] = "1" /\ s[2] \in {"0", "1", "2"}
    /\ s[3] = ":"
    /\ s[4] \in {"0", "1", "2", "3", "4", "5"}
    /\ IsDigit(s[5])
    /\ s[6] = " "
    /\ \/ s[7] = "A" /\ s[8] = "M"
       \/ s[7] = "P" /\ s[8] = "M"

----------------------------------------------------------------------------
(* server/index.ts: isTimeToSendEmail, at wall-clock time t *)

\* isTimeToSendEmail without the 12 AM -> 0 step
isTimeToSendEmailNoMidnight(preferredTime, t) ==
    LET parts == split(preferredTime, " ")
        hm == split(parts[1], ":")
        hour0 == parseInt(hm[1])
        hour == IF parts[2] = <<"P", "M">> /\ hour0 # 12 THEN hour0 + 12 ELSE hour0
    IN  getHours(t) = hour /\ getMinutes(t) = parseInt(hm[2])

\* isTimeToSendEmail with a tick after the preferred minute catching up
isTimeToSendEmailCatchUp(preferredTime, t) ==
    LET parts == split(preferredTime, " ")
        hm == split(parts[1], ":")
        hour0 == parseInt(hm[1])
        hour1 == IF parts[2] = <<"P", "M">> /\ hour0 # 12 THEN hour0 + 12 ELSE hour0
        hour == IF parts[2] = <<"A", "M">> /\ hour1 = 12 THEN 0 ELSE hour1
    IN  60 * getHours(t) + getMinutes(t) >= 60 * hour + parseInt(hm[2])

isTimeToSendEmail(preferredTime, t) ==
    LET parts == split(preferredTime, " ")
        time == parts[1]
        period == IF Len(parts) >= 2 THEN parts[2] ELSE <<>>
        hm == split(time, ":")
        hours == hm[1]
        minutes == IF Len(hm) >= 2 THEN hm[2] ELSE <<>>
        hour0 == parseInt(hours)
        hour1 == IF period = <<"P", "M">> /\ hour0 # 12 THEN hour0 + 12 ELSE hour0
        hour == IF period = <<"A", "M">> /\ hour1 = 12 THEN 0 ELSE hour1
    IN  getHours(t) = hour /\ getMinutes(t) = parseInt(minutes)

----------------------------------------------------------------------------
(* Values *)

NULL == <<>>

T0900AM == <<"0", "9", ":", "0", "0", " ", "A", "M">>
T0902AM == <<"0", "9", ":", "0", "2", " ", "A", "M">>
T9AM    == <<"9", ":", "0", "0", " ", "A", "M">>

\* the server is started at 08:57 of day 1
BootTime == 1440 + 8 * 60 + 57
Today == toISODate(BootTime)

\* a comparison of the subject as it is written
toLowerCaseNone(s) == s

\* String.prototype.toLowerCase on the subject names that occur
toLowerCase(s) ==
    CASE s \in {"Math", "MATH", "mAtH"} -> "math"
      [] s \in {"English", "ENGLISH"} -> "english"
      [] s = "Science" -> "science"
      [] OTHER -> s

----------------------------------------------------------------------------
(* server/questions (generator): the questions are kept as their number *)

RECURSIVE getDailyQuestionsLoop(_, _, _, _)
getDailyQuestionsLoop(subject, grade, count, i) ==
    IF i >= count THEN 0
    ELSE (IF toLowerCase(subject) = "math" THEN 1
          ELSE IF toLowerCase(subject) = "english" THEN 1
          ELSE 0) + getDailyQuestionsLoop(subject, grade, count, i + 1)

getDailyQuestions(subject, grade, count) ==
    getDailyQuestionsLoop(subject, grade, count, 0)

----------------------------------------------------------------------------
(* server/storage.ts: DatabaseStorage *)

getAllUsers == [i \in 1..NUsers |-> i]

\* a query without its where clause: every row, whoever it belongs to
getUserSubjectsAll(userId) == rows

\* db.select().from(studentSubjects).where(eq(user_id, userId))
getUserSubjects(userId) == SelectSeq(rows, LAMBDA r : r.user_id = userId)

createUserSubjects(userId, childName, subjects, grade, preferredEmailTime) ==
    [i \in 1..Len(subjects) |->
        [user_id |-> userId,
         childName |-> childName,
         subject |-> subjects[i],
         grade |-> grade,
         lastQuestionDate |-> toISODate(now),
         preferredEmailTime |-> preferredEmailTime]]

\* db.update(studentSubjects).set({ lastQuestionDate }).where(user_id = userId)
updateLastQuestionDate(userId, timestamp) ==
    [i \in 1..Len(rows) |->
        IF rows[i].user_id = userId
        THEN [rows[i] EXCEPT !.lastQuestionDate = toISODate(timestamp)]
        ELSE rows[i]]

\* new Date(user.trialEndsAt): <<day>> is the 'YYYY-MM-DD' text of a date
\* column, read as midnight UTC of that day; <<day, minute>> is a Date object
newDate(value) ==
    IF Len(value) = 1 THEN value[1] * 1440 ELSE value[1] * 1440 + value[2]

\* routes.ts, EmailQueue.processNextInQueue: who may be sent emails at time t
isInTrialPeriod(user, t) ==
    user.trialEndsAt # NULL /\ newDate(user.trialEndsAt) > t
isSubscribed(user) ==
    user.isSubscribed /\ user.stripeSubscriptionId # NULL
isEligible(user, t) == isInTrialPeriod(user, t) \/ isSubscribed(user)

----------------------------------------------------------------------------
(* server/index.ts: sendDailyQuestionsToAllUsers.  One record per           *)
(* invocation; pc is the await the invocation is suspended at.              *)

NewScan ==
    [pc |-> "getAllUsers",
     allUsers |-> <<>>,          \* the users the scan loops over
     idx |-> 0,                  \* position of the loop in allUsers
     userSubjects |-> <<>>,      \* the rows loaded for the current user
     first |-> 0,                \* which of them the query returned first
     calledAt |-> 0,             \* when sendDailyQuestions was called
     currentTimestamp |-> 0,     \* new Date() taken after the send
     visited |-> {},             \* users whose loop body was entered
     failed |-> {},              \* users whose loop body threw
     error |-> "none",           \* the await whose rejection was caught last
     aborted |-> FALSE]          \* the outer catch ended the scan

InProgress(s) == scans[s].pc # "done"

\* `continue`, or the end of the loop body: on to the next user, if any
NextUser(sc) ==
    IF sc.idx + 1 > Len(sc.allUsers)
    THEN [sc EXCEPT !.pc = "done", !.idx = sc.idx + 1,
                    !.userSubjects = <<>>, !.first = 0,
                    !.calledAt = 0, !.currentTimestamp = 0]
    ELSE [sc EXCEPT !.pc = "getUserSubjects", !.idx = sc.idx + 1,
                    !.userSubjects = <<>>, !.first = 0,
                    !.calledAt = 0, !.currentTimestamp = 0,
                    !.visited = sc.visited \cup {sc.allUsers[sc.idx + 1]}]

\* a catch outside the loop: the failure of one user ends the scan
CatchUserAbort(sc) ==
    [sc EXCEPT !.pc = "done", !.failed = sc.failed \cup {sc.allUsers[sc.idx]},
               !.error = sc.pc,
               !.userSubjects = <<>>, !.first = 0,
               !.calledAt = 0, !.currentTimestamp = 0]

\* a catch that goes on to the update of the rows as if the email was sent
CatchUserStamp(sc) ==
    [sc EXCEPT !.pc = "update", !.currentTimestamp = now, !.error = sc.pc,
               !.failed = sc.failed \cup {sc.allUsers[sc.idx]}]

\* the inner catch: log and continue
CatchUser(sc) ==
    NextUser([sc EXCEPT !.failed = sc.failed \cup {sc.allUsers[sc.idx]},
                        !.error = sc.pc])

\* the outer catch: log and return
CatchScan(sc) == [sc EXCEPT !.pc = "done", !.aborted = TRUE, !.error = sc.pc]

\* "already sent today": lastQuestionDate.startsWith(todayDateStr)
AlreadySentToday(row) == row.lastQuestionDate = toISODate(now)

\* the subjects the email carries questions for: the keys of questionsBySubject
questionsBySubject(userSubjects) ==
    [subj \in {userSubjects[i].subject : i \in 1..Len(userSubjects)} |->
        LET i == CHOOSE j \in 1..Len(userSubjects) :
                    /\ userSubjects[j].subject = subj
                    /\ \A k \in (j + 1)..Len(userSubjects) :
                            userSubjects[k].subject # subj
        IN  getDailyQuestions(subj, userSubjects[i].grade, QuestionsPerSubject)]

\* the timer of setInterval fires: a scan starts, whatever else is running
Tick ==
    /\ now = nextTick
    /\ scans' = Append(scans, NewScan)
    /\ nextTick' = nextTick + TickInterval
    /\ UNCHANGED <<now, users, rows, emails, resp, nreq, stripe, tc>>

\* a minute passes; the timer fires in the minute it is due
Advance ==
    /\ now < BootTime + MaxElapsed
    /\ now < nextTick
    /\ now' = now + 1
    /\ UNCHANGED <<nextTick, users, rows, scans, emails, resp, nreq, stripe, tc>>

\* await storage.getAllUsers() returns, or throws
ScanGetAllUsers(s) ==
    /\ scans[s].pc = "getAllUsers"
    /\ \/ scans' = [scans EXCEPT ![s] =
                        NextUser([scans[s] EXCEPT !.allUsers = getAllUsers])]
       \/ scans' = [scans EXCEPT ![s] = CatchScan(scans[s])]
    /\ UNCHANGED <<now, nextTick, users, rows, emails, resp, nreq, stripe, tc>>

\* await storage.getUserSubjects(user_id) returns, or throws; then the checks
\* up to the call of sendDailyQuestions
ScanGetUserSubjects(s) ==
    LET sc == scans[s]
        user == sc.allUsers[sc.idx]
        us == getUserSubjects(user)
    IN  /\ sc.pc = "getUserSubjects"
        /\ \/ scans' = [scans EXCEPT ![s] = CatchUser(sc)]
           \/ /\ Len(us) = 0
              /\ scans' = [scans EXCEPT ![s] = NextUser(sc)]
           \/ \E first \in 1..Len(us) :
                IF AlreadySentToday(us[first])
                THEN scans' = [scans EXCEPT ![s] = NextUser(sc)]
                ELSE IF ~isTimeToSendEmail(us[first].preferredEmailTime, now)
                THEN scans' = [scans EXCEPT ![s] = NextUser(sc)]
                ELSE scans' = [scans EXCEPT ![s] =
                        [sc EXCEPT !.pc = "sendDailyQuestions",
                                   !.userSubjects = us,
                                   !.first = first,
                                   !.calledAt = now]]
        /\ UNCHANGED <<now, nextTick, users, rows, emails, resp, nreq, stripe, tc>>

\* await sendDailyQuestions(...) returns, or throws
ScanSendDailyQuestions(s) ==
    LET sc == scans[s]
        user == sc.allUsers[sc.idx]
    IN  /\ sc.pc = "sendDailyQuestions"
        /\ \/ /\ emails' = emails \cup
                    {[to |-> user,
                      by |-> <<"scan", s>>,
                      at |-> sc.calledAt,
                      preferredTime |-> sc.userSubjects[sc.first].preferredEmailTime,
                      childName |-> sc.userSubjects[sc.first].childName,
                      questions |-> questionsBySubject(sc.userSubjects)]}
              /\ scans' = [scans EXCEPT ![s] =
                    [sc EXCEPT !.pc = "update", !.currentTimestamp = now]]
           \/ /\ scans' = [scans EXCEPT ![s] = CatchUser(sc)]
              /\ UNCHANGED emails
        /\ UNCHANGED <<now, nextTick, users, rows, resp, nreq, stripe, tc>>

\* await db.update(studentSubjects)... returns, or throws into its own catch
ScanUpdate(s) ==
    LET sc == scans[s]
        user == sc.allUsers[sc.idx]
    IN  /\ sc.pc = "update"
        /\ \/ rows' = updateLastQuestionDate(user, sc.currentTimestamp)
           \/ UNCHANGED rows
        /\ scans' = [scans EXCEPT ![s] = NextUser(sc)]
        /\ UNCHANGED <<now, nextTick, users, emails, resp, nreq, stripe, tc>>

----------------------------------------------------------------------------
(* HTTP requests.  auth is req.isAuthenticated(), u the session's user.     *)

Ann == <<"A", "n", "n">>

\* a handler that leaves the session check out
isAuthenticatedAlways(auth) == TRUE

\* req.isAuthenticated(): whether the request carries a logged-in session
isAuthenticated(auth) == auth

\* insertProfileSchema without .min(1) on subjects
insertProfileSchemaNoMin(body) ==
    /\ Len(body.childName) >= 1
    /\ \A i \in 1..Len(body.subjects) : body.subjects[i] \in {"math", "english"}
    /\ body.grade >= 1 /\ body.grade <= 10
    /\ preferredEmailTimeRegex(body.preferredEmailTime)

\* shared/schema.ts: insertProfileSchema.parse(req.body) succeeds
insertProfileSchema(body) ==
    /\ Len(body.childName) >= 1
    /\ Len(body.subjects) >= 1
    /\ \A i \in 1..Len(body.subjects) : body.subjects[i] \in {"math", "english"}
    /\ body.grade >= 1 /\ body.grade <= 10
    /\ preferredEmailTimeRegex(body.preferredEmailTime)

ProfileBodies ==
    {[childName |-> Ann, subjects |-> <<"math">>, grade |-> 3,
      preferredEmailTime |-> T0902AM],
     [childName |-> Ann, subjects |-> <<"english", "math">>, grade |-> 3,
      preferredEmailTime |-> T0900AM],
     [childName |-> Ann, subjects |-> <<>>, grade |-> 3,
      preferredEmailTime |-> T0900AM],
     [childName |-> <<>>, subjects |-> <<"math">>, grade |-> 3,
      preferredEmailTime |-> T0900AM],
     [childName |-> Ann, subjects |-> <<"math">>, grade |-> 11,
      preferredEmailTime |-> T0900AM],
     [childName |-> Ann, subjects |-> <<"science">>, grade |-> 3,
      preferredEmailTime |-> T0900AM],
     [childName |-> Ann, subjects |-> <<"math">>, grade |-> 3,
      preferredEmailTime |-> T9AM]}

\* the bodies insertProfileSchema accepts
ValidProfileBodies == {body \in ProfileBodies : insertProfileSchema(body)}

NoBody == <<>>

Response(ep, auth, u, status, generated, body) ==
    [ep |-> ep, auth |-> auth, user |-> IF auth THEN u ELSE 0,
     status |-> status, generated |-> generated, body |-> body]

\* the response to POST /api/profile, kept with the request body it answers
ProfileResponse(auth, u, status, body) ==
    Response("POST /api/profile", auth, u, status, FALSE, NoBody)
        @@ [request |-> body]

\* POST /api/profile
PostProfile(auth, u, body) ==
    /\ nreq < MaxRequests
    /\ nreq' = nreq + 1
    /\ IF ~isAuthenticated(auth)
       THEN /\ resp' = ProfileResponse(auth, u, 401, body)
            /\ UNCHANGED rows
       ELSE IF ~insertProfileSchema(body)
       THEN /\ resp' = ProfileResponse(auth, u, 400, body)
            /\ UNCHANGED rows
       ELSE \/ /\ Len(rows) + Len(body.subjects) <= MaxRows
               /\ rows' = rows \o createUserSubjects(u, body.childName,
                                    body.subjects, body.grade,
                                    body.preferredEmailTime)
               /\ resp' = ProfileResponse(auth, u, 200, body)
            \/ /\ resp' = ProfileResponse(auth, u, 400, body)
               /\ UNCHANGED rows
    /\ UNCHANGED <<now, nextTick, users, scans, emails, stripe, tc>>

\* GET /api/profile
GetProfile(auth, u) ==
    /\ nreq < MaxRequests
    /\ nreq' = nreq + 1
    /\ IF ~isAuthenticated(auth)
       THEN resp' = Response("GET /api/profile", auth, u, 401, FALSE, NoBody)
       ELSE \/ resp' = Response("GET /api/profile", auth, u,
                            IF Len(getUserSubjects(u)) = 0 THEN 404 ELSE 200,
                            FALSE, NoBody)
            \/ resp' = Response("GET /api/profile", auth, u, 500, FALSE, NoBody)
    /\ UNCHANGED <<now, nextTick, users, rows, scans, emails, stripe, tc>>

\* GET /api/questions
GetQuestions(auth, u) ==
    /\ nreq < MaxRequests
    /\ nreq' = nreq + 1
    /\ IF ~isAuthenticated(auth)
       THEN resp' = Response("GET /api/questions", auth, u, 401, FALSE, NoBody)
       ELSE \/ IF Len(getUserSubjects(u)) = 0
               THEN resp' = Response("GET /api/questions", auth, u, 404, FALSE, NoBody)
               ELSE resp' = Response("GET /api/questions", auth, u, 200, TRUE,
                                     questionsBySubject(getUserSubjects(u)))
            \/ resp' = Response("GET /api/questions", auth, u, 500, FALSE, NoBody)
    /\ UNCHANGED <<now, nextTick, users, rows, scans, emails, stripe, tc>>

\* a catch that gives up the request when the email cannot be sent
AfterEmailFailureAbort(response) ==
    [response EXCEPT !.status = 500, !.generated = FALSE, !.body = NoBody]

\* the catch around sendDailyQuestions: "continue even if email fails", the
\* response stays as it was
AfterEmailFailure(response) == response

\* the 200 response of the emailing handler, kept with the outcome of its
\* one call of sendDailyQuestions
QuestionsResponse(auth, u, dispatch) ==
    Response("GET /api/questions (email)", auth, u, 200, TRUE,
             questionsBySubject(getUserSubjects(u)))
        @@ [dispatch |-> dispatch]

\* GET /api/questions as in server/routes.ts, which also emails the questions
GetQuestionsAndEmail(auth, u) ==
    /\ nreq < MaxRequests
    /\ nreq' = nreq + 1
    /\ IF ~isAuthenticated(auth)
       THEN /\ resp' = Response("GET /api/questions (email)", auth, u, 401,
                                FALSE, NoBody)
            /\ UNCHANGED emails
       ELSE IF Len(getUserSubjects(u)) = 0
       THEN /\ resp' = Response("GET /api/questions (email)", auth, u, 404,
                                FALSE, NoBody)
            /\ UNCHANGED emails
       ELSE \/ /\ emails' = emails \cup
                    {[to |-> u,
                      by |-> <<"request", nreq + 1>>,
                      at |-> now,
                      preferredTime |-> <<>>,
                      childName |-> <<>>,
                      questions |-> questionsBySubject(getUserSubjects(u))]}
               /\ resp' = QuestionsResponse(auth, u, "sent")
            \/ /\ UNCHANGED emails
               /\ resp' = AfterEmailFailure(QuestionsResponse(auth, u, "failed"))
    /\ UNCHANGED <<now, nextTick, users, rows, scans, stripe, tc>>

\* storage.updateUserStripeInfo
updateUserStripeInfo(userId, customerId, subscriptionId) ==
    [users EXCEPT ![userId] =
        [@ EXCEPT !.stripeCustomerId = customerId,
                  !.stripeSubscriptionId = subscriptionId,
                  !.isSubscribed = TRUE]]

\* POST /api/get-or-create-subscription
GetOrCreateSubscription(auth, u) ==
    /\ nreq < MaxRequests
    /\ nreq' = nreq + 1
    /\ IF ~isAuthenticated(auth)
       THEN /\ resp' = Response("POST /api/get-or-create-subscription", auth, u,
                                401, FALSE, NoBody)
            /\ UNCHANGED <<users, stripe>>
       ELSE IF users[u].stripeSubscriptionId # NULL
       THEN \* retrieve the subscription and its payment intent, or fail
            /\ \/ resp' = Response("POST /api/get-or-create-subscription", auth,
                                   u, 200, FALSE, users[u].stripeSubscriptionId)
               \/ resp' = Response("POST /api/get-or-create-subscription", auth,
                                   u, 400, FALSE, NoBody)
            /\ UNCHANGED <<users, stripe>>
       ELSE \/ \* stripe.customers.create throws
               /\ resp' = Response("POST /api/get-or-create-subscription", auth,
                                   u, 400, FALSE, NoBody)
               /\ UNCHANGED <<users, stripe>>
            \/ \* stripe.subscriptions.create throws
               /\ stripe' = [stripe EXCEPT !.customers = @ + 1]
               /\ resp' = Response("POST /api/get-or-create-subscription", auth,
                                   u, 400, FALSE, NoBody)
               /\ UNCHANGED users
            \/ \* both are created and stored; the payment intent may be missing
               /\ stripe' = [customers |-> stripe.customers + 1,
                             subscriptions |-> stripe.subscriptions + 1,
                             customerOf |-> Append(stripe.customerOf,
                                                   stripe.customers + 1)]
               /\ users' = updateUserStripeInfo(u,
                                <<"cus", stripe.customers + 1>>,
                                <<"sub", stripe.subscriptions + 1>>)
               /\ \E ok \in BOOLEAN :
                    resp' = Response("POST /api/get-or-create-subscription",
                                auth, u, IF ok THEN 200 ELSE 400, FALSE,
                                IF ok THEN <<"sub", stripe.subscriptions + 1>>
                                ELSE NoBody)
    /\ UNCHANGED <<now, nextTick, rows, scans, emails, tc>>

----------------------------------------------------------------------------
(* The states the server can be started in *)

Row(userId, subject, preferredTime, lastDate) ==
    [user_id |-> userId, childName |-> Ann, subject |-> subject, grade |-> 3,
     lastQuestionDate |-> lastDate, preferredEmailTime |-> preferredTime]

PrefTimes == {T0900AM, T0902AM}

\* user 1 has one enrollment row; user 2 has none, or two
InitialRows ==
    {<<Row(1, "math", p1, Today - 1)>> \o r2 :
        p1 \in PrefTimes,
        r2 \in {<<>>,
                <<Row(2, "math", T0902AM, Today - 1),
                  Row(2, "english", T0902AM, Today - 1)>>}}

\* as storage.createUser leaves a user: on trial, not subscribed
TrialUser(trialEndsAt) ==
    [trialEndsAt |-> <<trialEndsAt>>, isSubscribed |-> FALSE,
     stripeCustomerId |-> NULL, stripeSubscriptionId |-> NULL]

\* user 1 registered yesterday; the others' trials ended yesterday
InitialUsers ==
    [u \in Users |-> IF u = 1 THEN TrialUser(Today + TrialDays - 1)
                     ELSE TrialUser(Today - 1)]

\* the payment processor before any customer: customerOf[k] is the customer
\* of subscription k
NoStripe == [customers |-> 0, subscriptions |-> 0, customerOf |-> <<>>]

NoCheck == [preferredTime |-> <<>>, t |-> 0, checked |-> FALSE, result |-> FALSE]
NoResponse == Response("none", FALSE, 0, 0, FALSE, NoBody)

\* server.listen's callback has run: the initial scan is started and the
\* interval timer is set
Init ==
    /\ now = BootTime
    /\ nextTick = BootTime + TickInterval
    /\ users = InitialUsers
    /\ rows \in InitialRows
    /\ scans = <<NewScan>>
    /\ emails = {}
    /\ resp = NoResponse
    /\ nreq = 0
    /\ stripe = NoStripe
    /\ tc = NoCheck

Scheduler ==
    \/ Tick
    \/ Advance
    \/ \E s \in 1..Len(scans) : ScanGetAllUsers(s)
    \/ \E s \in 1..Len(scans) : ScanGetUserSubjects(s)
    \/ \E s \in 1..Len(scans) : ScanSendDailyQuestions(s)
    \/ \E s \in 1..Len(scans) : ScanUpdate(s)

Next ==
    \/ Scheduler
    \/ /\ nreq < MaxProfiles
       /\ \E u \in Users, body \in ValidProfileBodies :
                PostProfile(TRUE, u, body)

Spec == Init /\ [][Next]_vars

NextHttp ==
    \/ \E auth \in BOOLEAN, u \in Users, body \in ProfileBodies :
            PostProfile(auth, u, body)
    \/ \E auth \in BOOLEAN, u \in Users : GetProfile(auth, u)
    \/ \E auth \in BOOLEAN, u \in Users : GetQuestions(auth, u)
    \/ \E auth \in BOOLEAN, u \in Users : GetQuestionsAndEmail(auth, u)
    \/ \E auth \in BOOLEAN, u \in Users : GetOrCreateSubscription(auth, u)

SpecHttp == Init /\ [][NextHttp]_vars

----------------------------------------------------------------------------
(* server/routes.ts: POST /api/stripe-webhook *)

\* no metadata entry, no such subscription
Absent == 0

\* stripe.webhooks.constructEvent without the signature verification
constructEventUnverified(sigOk) == TRUE

\* stripe.webhooks.constructEvent(body, sig, secret): returns the event when
\* the signature verifies, throws otherwise
constructEvent(sigOk) == sigOk

\* storage.getUser(id): the user's id, 0 for undefined
getUser(id) == IF id \in DOMAIN users THEN id ELSE 0

\* storage.getUserByStripeCustomerId(customerId): results[0], 0 for undefined
getUserByStripeCustomerId(customerId) ==
    IF \E u \in DOMAIN users : users[u].stripeCustomerId = customerId
    THEN CHOOSE u \in DOMAIN users :
            /\ users[u].stripeCustomerId = customerId
            /\ \A v \in DOMAIN users :
                    users[v].stripeCustomerId = customerId => u <= v
    ELSE 0

\* storage.updateSubscriptionStatus
updateSubscriptionStatus(userId, flag) ==
    [users EXCEPT ![userId] = [@ EXCEPT !.isSubscribed = flag]]

\* the events a request body can carry: the type, the payment intent's
\* metadata (userId, subscriptionId), the subscription's customer
Events ==
    [type : {"payment_intent.succeeded"},
     userId : Users \cup {Absent},
     subscriptionId : 1..stripe.subscriptions \cup {Absent},
     customer : {Absent}]
    \cup
    [type : {"customer.subscription.deleted"},
     userId : {Absent},
     subscriptionId : {Absent},
     customer : 1..(stripe.customers + 1)]
    \cup
    [type : {"invoice.paid"},
     userId : {Absent}, subscriptionId : {Absent}, customer : {Absent}]

WebhookResponse(sigOk, event, status) ==
    [ep |-> "POST /api/stripe-webhook", auth |-> FALSE, user |-> 0,
     status |-> status, generated |-> FALSE, body |-> NoBody,
     sigOk |-> sigOk, event |-> event]

StripeWebhook(sigOk, event) ==
    /\ nreq < MaxRequests
    /\ nreq' = nreq + 1
    /\ IF ~constructEvent(sigOk)
       THEN /\ resp' = WebhookResponse(sigOk, event, 400)
            /\ UNCHANGED users
       ELSE /\ resp' = WebhookResponse(sigOk, event, 200)
            /\ CASE event.type = "payment_intent.succeeded" ->
                    \* subscriptions.retrieve or the store throws: logged
                    \/ UNCHANGED users
                    \/ /\ event.subscriptionId # Absent
                       /\ IF getUser(event.userId) # 0
                          THEN users' = updateUserStripeInfo(
                                    getUser(event.userId),
                                    <<"cus", stripe.customerOf[event.subscriptionId]>>,
                                    <<"sub", event.subscriptionId>>)
                          ELSE UNCHANGED users
                 [] event.type = "customer.subscription.deleted" ->
                    \* the store throws: logged
                    \/ UNCHANGED users
                    \/ IF getUserByStripeCustomerId(<<"cus", event.customer>>) # 0
                       THEN users' = updateSubscriptionStatus(
                                getUserByStripeCustomerId(<<"cus", event.customer>>),
                                FALSE)
                       ELSE UNCHANGED users
                 [] OTHER -> UNCHANGED users
    /\ UNCHANGED <<now, nextTick, rows, scans, emails, stripe, tc>>

NextStripe ==
    \/ \E auth \in BOOLEAN, u \in Users : GetOrCreateSubscription(auth, u)
    \/ \E sigOk \in BOOLEAN, event \in Events : StripeWebhook(sigOk, event)

SpecStripe == Init /\ [][NextStripe]_vars

----------------------------------------------------------------------------
(* isTimeToSendEmail on its own: every accepted preferred time against a    *)
(* sample of wall-clock times                                               *)

HourTexts == {<<h1, h2>> : h1 \in {"0", "1"}, h2 \in {Digits[i] : i \in 1..10}}
MinuteTexts == {<<"0", "0">>, <<"0", "1">>, <<"3", "0">>, <<"5", "9">>}

TimeTexts ==
    {h \o <<":">> \o m \o <<" ", p, "M">> :
        h \in HourTexts, m \in MinuteTexts, p \in {"A", "P"}}

\* the preferred times insertProfileSchema lets into the store
AcceptedTimes == {p \in TimeTexts : preferredEmailTimeRegex(p)}

ClockTimes ==
    {1440 + 60 * h + m : h \in 0..23, m \in {0, 1, 29, 30, 31, 58, 59}}

InitTime ==
    /\ now = BootTime
    /\ nextTick = BootTime + TickInterval
    /\ users = InitialUsers
    /\ rows = <<>>
    /\ scans = <<>>
    /\ emails = {}
    /\ resp = NoResponse
    /\ nreq = 0
    /\ stripe = NoStripe
    /\ \E p \in AcceptedTimes, t \in ClockTimes :
            tc = [preferredTime |-> p, t |-> t, checked |-> FALSE,
                  result |-> FALSE]

CheckTime ==
    /\ ~tc.checked
    /\ tc' = [tc EXCEPT !.checked = TRUE,
                        !.result = isTimeToSendEmail(tc.preferredTime, tc.t)]
    /\ UNCHANGED <<now, nextTick, users, rows, scans, emails, resp, nreq, stripe>>

SpecTime == InitTime /\ [][CheckTime]_vars

----------------------------------------------------------------------------
(* server/questions (generator): getDailyQuestions on its own *)

MaxGrade == 3
MaxCount == 3

Grades == 0..MaxGrade

SubjectTexts ==
    {"math", "Math", "MATH", "mAtH", "english", "English", "ENGLISH",
     "science", "Science", ""}

InitDaily ==
    /\ now = BootTime
    /\ nextTick = BootTime + TickInterval
    /\ users = InitialUsers
    /\ rows = <<>>
    /\ scans = <<>>
    /\ emails = {}
    /\ resp = NoResponse
    /\ nreq = 0
    /\ stripe = NoStripe
    /\ \E subject \in SubjectTexts, grade \in Grades,
          count \in (0..MaxCount) \cup {QuestionsPerSubject} :
            tc = [subject |-> subject, grade |-> grade, count |-> count,
                  checked |-> FALSE, result |-> 0]

CallGetDailyQuestions ==
    /\ ~tc.checked
    /\ tc' = [tc EXCEPT !.checked = TRUE,
                        !.result = getDailyQuestions(tc.subject, tc.grade,
                                                     tc.count)]
    /\ UNCHANGED <<now, nextTick, users, rows, scans, emails, resp, nreq, stripe>>

SpecDaily == InitDaily /\ [][CallGetDailyQuestions]_vars

----------------------------------------------------------------------------
(* server/questions (generator): generateMathQuestion.  Math.random() is    *)
(* i / RandomSteps for an i in 0 .. RandomSteps - 1.                        *)

RandomSteps == 50
OperationSteps == 6

\* String(n) for an integer n
RECURSIVE NatString(_)
NatString(n) ==
    IF n < 10 THEN <<Digits[n + 1]>>
    ELSE NatString(n \div 10) \o <<Digits[(n % 10) + 1]>>

String(n) == IF n < 0 THEN <<"-">> \o NatString(-n) ELSE NatString(n)

\* Math.floor(Math.random() * k), Math.random() being i / steps
floorRandom(i, steps, k) == (i * k) \div steps

operations == <<"+", "-", "*">>

\* generateMathQuestion without the exchange of the operands
generateMathQuestionNoSwap(grade, r1, r2, r3) ==
    LET range == CASE grade = 1 -> 10 [] grade = 2 -> 20 [] OTHER -> 50
        num1 == floorRandom(r1, RandomSteps, range) + 1
        num2 == floorRandom(r2, RandomSteps, range) + 1
        operation == operations[floorRandom(r3, OperationSteps,
                            IF grade \in {1, 2} THEN 2 ELSE 3) + 1]
    IN  [subject |-> "math", grade |-> grade, num1 |-> num1,
         operation |-> operation, num2 |-> num2,
         answer |-> CASE operation = "+" -> String(num1 + num2)
                      [] operation = "-" -> String(num1 - num2)
                      [] operation = "*" -> String(num1 * num2)]

\* generateMathQuestion with the operands of default grades in every grade
generateMathQuestionOneRange(grade, r1, r2, r3) ==
    LET num1 == floorRandom(r1, RandomSteps, 50) + 1
        num2 == floorRandom(r2, RandomSteps, 50) + 1
        operation == operations[floorRandom(r3, OperationSteps,
                            IF grade \in {1, 2} THEN 2 ELSE 3) + 1]
        first == IF operation = "-" /\ num2 > num1 THEN num2 ELSE num1
        second == IF operation = "-" /\ num2 > num1 THEN num1 ELSE num2
    IN  [subject |-> "math", grade |-> grade, num1 |-> first,
         operation |-> operation, num2 |-> second,
         answer |-> CASE operation = "+" -> String(first + second)
                      [] operation = "-" -> String(first - second)
                      [] operation = "*" -> String(first * second)]

\* generateMathQuestion(grade), r1, r2 and r3 being its three calls of
\* Math.random(); the question text is kept as the operands and the operation
\* it shows, in their order
generateMathQuestion(grade, r1, r2, r3) ==
    LET range == CASE grade = 1 -> 10 [] grade = 2 -> 20 [] OTHER -> 50
        num1 == floorRandom(r1, RandomSteps, range) + 1
        num2 == floorRandom(r2, RandomSteps, range) + 1
        operation == operations[floorRandom(r3, OperationSteps,
                            IF grade \in {1, 2} THEN 2 ELSE 3) + 1]
        \* case '-': if (num2 > num1) [num1, num2] = [num2, num1]
        first == IF operation = "-" /\ num2 > num1 THEN num2 ELSE num1
        second == IF operation = "-" /\ num2 > num1 THEN num1 ELSE num2
    IN  [subject |-> "math", grade |-> grade, num1 |-> first,
         operation |-> operation, num2 |-> second,
         answer |-> CASE operation = "+" -> String(first + second)
                      [] operation = "-" -> String(first - second)
                      [] operation = "*" -> String(first * second)]

NoQuestion ==
    [subject |-> "", grade |-> 0, num1 |-> 0, operation |-> "", num2 |-> 0,
     answer |-> <<>>]

InitMath ==
    /\ now = BootTime
    /\ nextTick = BootTime + TickInterval
    /\ users = InitialUsers
    /\ rows = <<>>
    /\ scans = <<>>
    /\ emails = {}
    /\ resp = NoResponse
    /\ nreq = 0
    /\ stripe = NoStripe
    /\ \E grade \in Grades, r1, r2 \in 0..(RandomSteps - 1),
          r3 \in 0..(OperationSteps - 1) :
            tc = [grade |-> grade, r1 |-> r1, r2 |-> r2, r3 |-> r3,
                  checked |-> FALSE, question |-> NoQuestion]

CallGenerateMathQuestion ==
    /\ ~tc.checked
    /\ tc' = [tc EXCEPT !.checked = TRUE,
                        !.question = generateMathQuestion(tc.grade, tc.r1,
                                                          tc.r2, tc.r3)]
    /\ UNCHANGED <<now, nextTick, users, rows, scans, emails, resp, nreq, stripe>>

SpecMath == InitMath /\ [][CallGenerateMathQuestion]_vars

----------------------------------------------------------------------------
(* server/email.ts: sendDailyQuestions, one call at a time.  The call is    *)
(* suspended at each await of the provider; attempts are the sender          *)
(* addresses of the requests the provider has received for the call.         *)

\* the three dispatchers of email.ts, by the sender of their first request
Dispatchers == {"onboarding@resend.dev", "noreply@asn-global.co.uk",
                "noreply@eduquest.com"}

\* what the provider answers to one request: accepted, or an error
Accepted == [statusCode |-> 200, domainNotVerified |-> FALSE]

ProviderErrors ==
    {[statusCode |-> 403, domainNotVerified |-> TRUE],
     [statusCode |-> 403, domainNotVerified |-> FALSE],
     [statusCode |-> 429, domainNotVerified |-> FALSE],
     [statusCode |-> 500, domainNotVerified |-> FALSE]}

ProviderAnswers == {Accepted} \cup ProviderErrors

\* error.statusCode === 403 && error.message?.includes('domain is not verified')
isDomainNotVerified(error) ==
    error.statusCode = 403 /\ error.domainNotVerified

SubjectSets == {{"math"}, {"english"}, {"math", "english"}}

InitEmail ==
    /\ now = BootTime
    /\ nextTick = BootTime + TickInterval
    /\ users = InitialUsers
    /\ rows = <<>>
    /\ scans = <<>>
    /\ emails = {}
    /\ resp = NoResponse
    /\ nreq = 0
    /\ stripe = NoStripe
    /\ \E dispatcher \in Dispatchers, u \in Users, subjects \in SubjectSets :
            tc = [dispatcher |-> dispatcher, to |-> u, subjects |-> subjects,
                  pc |-> "send", attempts |-> <<>>, answers |-> <<>>,
                  outcome |-> "pending", error |-> Accepted]

\* await resend.emails.send(...) / apiInstance.sendTransacEmail(...) returns
EmailSend ==
    /\ tc.pc = "send"
    /\ \E answer \in ProviderAnswers :
        LET called == [tc EXCEPT !.attempts = Append(@, tc.dispatcher),
                                 !.answers = Append(@, answer)]
        IN  IF answer = Accepted
            THEN /\ tc' = [called EXCEPT !.pc = "done", !.outcome = "sent"]
                 /\ emails' = emails \cup
                        {[to |-> tc.to, by |-> <<"call", tc.dispatcher>>,
                          at |-> now, preferredTime |-> <<>>,
                          childName |-> <<>>,
                          questions |-> [s \in tc.subjects |->
                                            QuestionsPerSubject]]}
            ELSE IF tc.dispatcher = "noreply@asn-global.co.uk"
                    /\ isDomainNotVerified(answer)
            THEN /\ tc' = [called EXCEPT !.pc = "fallback"]
                 /\ UNCHANGED emails
            ELSE /\ tc' = [called EXCEPT !.pc = "done", !.outcome = "failed",
                                         !.error = answer]
                 /\ UNCHANGED emails
    /\ UNCHANGED <<now, nextTick, users, rows, scans, resp, nreq, stripe>>

\* the second await of the dispatcher of email.ts:141-193: the same email
\* from onboarding@resend.dev
EmailFallback ==
    /\ tc.pc = "fallback"
    /\ \E answer \in ProviderAnswers :
        LET called == [tc EXCEPT !.attempts = Append(@, "onboarding@resend.dev"),
                                 !.answers = Append(@, answer)]
        IN  IF answer = Accepted
            THEN /\ tc' = [called EXCEPT !.pc = "done", !.outcome = "sent"]
                 /\ emails' = emails \cup
                        {[to |-> tc.to, by |-> <<"call", "onboarding@resend.dev">>,
                          at |-> now, preferredTime |-> <<>>,
                          childName |-> <<>>,
                          questions |-> [s \in tc.subjects |->
                                            QuestionsPerSubject]]}
            ELSE /\ tc' = [called EXCEPT !.pc = "done", !.outcome = "failed",
                                         !.error = answer]
                 /\ UNCHANGED emails
    /\ UNCHANGED <<now, nextTick, users, rows, scans, resp, nreq, stripe>>

NextEmail == EmailSend \/ EmailFallback

SpecEmail == InitEmail /\ [][NextEmail]_vars

----------------------------------------------------------------------------
(* server/auth.ts: POST /api/register, over either store.  users is the     *)
(* users table, from empty; tc holds the store in use and one record per    *)
(* request: pc is the await the request is suspended at.                    *)

MaxRegistrations == 3

Emails == {"a@example.com", "b@example.com"}
Stores == {"DatabaseStorage", "MemStorage"}

\* the instants the clock visits: start-up, the midnight that begins the
\* seventh day after it, and the minutes around seven days after start-up
RegisterClock ==
    <<BootTime,
      (Today + TrialDays) * 1440,
      BootTime + TrialDays * 1440 - 1,
      BootTime + TrialDays * 1440,
      BootTime + TrialDays * 1440 + 1>>

\* storage.getUserByEmail(email): results[0] / find, 0 for undefined
getUserByEmail(email) ==
    IF \E i \in 1..Len(users) : users[i].email = email
    THEN CHOOSE i \in 1..Len(users) :
            /\ users[i].email = email
            /\ \A j \in 1..Len(users) : users[j].email = email => i <= j
    ELSE 0

\* DatabaseStorage.createUser at time t: trialEndsAt.toISOString() goes into
\* a date column, which keeps the date of t + 7 days
createUser(email, t) ==
    TrialUser(toISODate(t + TrialDays * 1440)) @@ [email |-> email]

\* MemStorage.createUser at time t: trialEndsAt is kept as the Date it is
MemStorageCreateUser(email, t) ==
    [TrialUser(0) EXCEPT !.trialEndsAt =
        <<toISODate(t + TrialDays * 1440), (t + TrialDays * 1440) % 1440>>]
        @@ [email |-> email]

Registration(email, pc, status) ==
    [email |-> email, pc |-> pc, status |-> status,
     at |-> 0,      \* when createUser ran for the request
     id |-> 0]      \* the user it created

InitRegister ==
    /\ now = BootTime
    /\ nextTick = BootTime + TickInterval
    /\ users = <<>>
    /\ rows = <<>>
    /\ scans = <<>>
    /\ emails = {}
    /\ resp = NoResponse
    /\ nreq = 0
    /\ stripe = NoStripe
    /\ \E store \in Stores : tc = [store |-> store, requests |-> <<>>]

\* time passes to the next instant of the clock
Elapse ==
    /\ \E i \in 1..(Len(RegisterClock) - 1) :
            now = RegisterClock[i] /\ now' = RegisterClock[i + 1]
    /\ UNCHANGED <<nextTick, users, rows, scans, emails, resp, nreq, stripe, tc>>

\* a request arrives and await storage.getUserByEmail(req.body.email)
\* returns (400 when a user is found) or throws (next(err): 500)
RegisterGetUserByEmail(email) ==
    /\ Len(tc.requests) < MaxRegistrations
    /\ \/ tc' = [tc EXCEPT !.requests = Append(@,
                    IF getUserByEmail(email) # 0
                    THEN Registration(email, "done", 400)
                    ELSE Registration(email, "createUser", 0))]
       \/ tc' = [tc EXCEPT !.requests = Append(@,
                    Registration(email, "done", 500))]
    /\ UNCHANGED <<now, nextTick, users, rows, scans, emails, resp, nreq, stripe>>

\* await hashPassword, then await storage.createUser returns or throws (the
\* unique constraint on users.email makes the insert throw), then req.login
RegisterCreateUser(r) ==
    LET request == tc.requests[r]
    IN  /\ request.pc = "createUser"
        /\ \/ /\ tc' = [tc EXCEPT !.requests[r] =
                            [request EXCEPT !.pc = "done", !.status = 500]]
              /\ UNCHANGED users
           \/ /\ tc.store = "DatabaseStorage" => getUserByEmail(request.email) = 0
              /\ users' = Append(users,
                    IF tc.store = "DatabaseStorage"
                    THEN createUser(request.email, now)
                    ELSE MemStorageCreateUser(request.email, now))
              /\ \E status \in {201, 500} :
                    tc' = [tc EXCEPT !.requests[r] =
                            [request EXCEPT !.pc = "done", !.status = status,
                                            !.at = now,
                                            !.id = Len(users) + 1]]
        /\ UNCHANGED <<now, nextTick, rows, scans, emails, resp, nreq, stripe>>

NextRegister ==
    \/ Elapse
    \/ \E email \in Emails : RegisterGetUserByEmail(email)
    \/ \E r \in 1..Len(tc.requests) : RegisterCreateUser(r)

SpecRegister == InitRegister /\ [][NextRegister]_vars

----------------------------------------------------------------------------
(* server/routes.ts: POST /api/get-or-create-subscription, await by await.  *)
(* tc holds one record per request: user is req.user as the session loaded  *)
(* it when the request arrived, pc the await the request is suspended at.   *)

MaxSubscriptionRequests == 3

SubscriptionRequest(auth, u) ==
    [user |-> IF auth THEN u ELSE 0,
     stripeSubscriptionId |-> IF auth THEN users[u].stripeSubscriptionId ELSE NULL,
     pc |-> IF ~isAuthenticated(auth) THEN "done"
            ELSE IF users[u].stripeSubscriptionId # NULL
            THEN "subscriptions.retrieve"
            ELSE "customers.create",
     status |-> IF ~isAuthenticated(auth) THEN 401 ELSE 0,
     customer |-> 0,         \* the customer the request created
     subscription |-> 0]     \* the subscription the request created

InitSubscription ==
    /\ now = BootTime
    /\ nextTick = BootTime + TickInterval
    /\ users = InitialUsers
    /\ rows = <<>>
    /\ scans = <<>>
    /\ emails = {}
    /\ resp = NoResponse
    /\ nreq = 0
    /\ stripe = NoStripe
    /\ tc = [requests |-> <<>>]

\* the request arrives: the session check and the look at req.user
SubscriptionBegin(auth, u) ==
    /\ Len(tc.requests) < MaxSubscriptionRequests
    /\ tc' = [tc EXCEPT !.requests = Append(@, SubscriptionRequest(auth, u))]
    /\ UNCHANGED <<now, nextTick, users, rows, scans, emails, resp, nreq, stripe>>

\* await stripe.subscriptions.retrieve / paymentIntents.retrieve return, or
\* throw
SubscriptionRetrieve(r) ==
    /\ tc.requests[r].pc = "subscriptions.retrieve"
    /\ \E status \in {200, 400} :
            tc' = [tc EXCEPT !.requests[r].pc = "done",
                             !.requests[r].status = status]
    /\ UNCHANGED <<now, nextTick, users, rows, scans, emails, resp, nreq, stripe>>

\* await stripe.customers.create returns, or throws
SubscriptionCustomersCreate(r) ==
    /\ tc.requests[r].pc = "customers.create"
    /\ \/ /\ tc' = [tc EXCEPT !.requests[r].pc = "done",
                              !.requests[r].status = 400]
          /\ UNCHANGED stripe
       \/ /\ stripe' = [stripe EXCEPT !.customers = @ + 1]
          /\ tc' = [tc EXCEPT !.requests[r].pc = "subscriptions.create",
                              !.requests[r].customer = stripe.customers + 1]
    /\ UNCHANGED <<now, nextTick, users, rows, scans, emails, resp, nreq>>

\* STRIPE_PRICE_ID is missing or await stripe.subscriptions.create throws, or
\* the subscription is created
SubscriptionSubscriptionsCreate(r) ==
    /\ tc.requests[r].pc = "subscriptions.create"
    /\ \/ /\ tc' = [tc EXCEPT !.requests[r].pc = "done",
                              !.requests[r].status = 400]
          /\ UNCHANGED stripe
       \/ /\ stripe' = [stripe EXCEPT
                            !.subscriptions = @ + 1,
                            !.customerOf = Append(@, tc.requests[r].customer)]
          /\ tc' = [tc EXCEPT !.requests[r].pc = "updateUserStripeInfo",
                              !.requests[r].subscription =
                                    stripe.subscriptions + 1]
    /\ UNCHANGED <<now, nextTick, users, rows, scans, emails, resp, nreq>>

\* await storage.updateUserStripeInfo returns, or throws; then the payment
\* intent's client secret is there or not
SubscriptionUpdateUserStripeInfo(r) ==
    LET request == tc.requests[r]
    IN  /\ request.pc = "updateUserStripeInfo"
        /\ \/ /\ tc' = [tc EXCEPT !.requests[r].pc = "done",
                                  !.requests[r].status = 400]
              /\ UNCHANGED users
           \/ /\ users' = updateUserStripeInfo(request.user,
                                <<"cus", request.customer>>,
                                <<"sub", request.subscription>>)
              /\ \E status \in {200, 400} :
                    tc' = [tc EXCEPT !.requests[r].pc = "done",
                                     !.requests[r].status = status]
        /\ UNCHANGED <<now, nextTick, rows, scans, emails, resp, nreq, stripe>>

NextSubscription ==
    \/ \E auth \in BOOLEAN, u \in Users : SubscriptionBegin(auth, u)
    \/ \E r \in 1..Len(tc.requests) : SubscriptionRetrieve(r)
    \/ \E r \in 1..Len(tc.requests) : SubscriptionCustomersCreate(r)
    \/ \E r \in 1..Len(tc.requests) : SubscriptionSubscriptionsCreate(r)
    \/ \E r \in 1..Len(tc.requests) : SubscriptionUpdateUserStripeInfo(r)

SpecSubscription == InitSubscription /\ [][NextSubscription]_vars

----------------------------------------------------------------------------
(* server/routes.ts: EmailQueue and sendQuestionsToAllEligibleUsers.  tc    *)
(* holds the queue object, the interval timer, and the clock in seconds     *)
(* since start-up; an invocation is one run of processNextInQueue, either   *)
(* suspended at an await (pc) or waiting for its follow-up timer (due).     *)

MaxIntervals == 2

\* setTimeout(() => this.processNextInQueue(), 30000), in seconds
QueueDelay == 30
\* setInterval(sendQuestionsToAllEligibleUsers, 5 * 60 * 1000), in seconds
EmailInterval == 300

RemoveAt(seq, k) == SubSeq(seq, 1, k - 1) \o SubSeq(seq, k + 1, Len(seq))

\* the run of processNextInQueue that took userId off the queue
Invocation(userId) == [pc |-> "select", userId |-> userId, due |-> 0]

\* a follow-up that is due at once
setTimeoutNow(invocation, t) ==
    [invocation EXCEPT !.pc = "timer", !.due = t]

\* setTimeout(() => this.processNextInQueue(), 30000) at second t: the
\* invocation is over and its follow-up is pending
setTimeout(invocation, t) ==
    [invocation EXCEPT !.pc = "timer", !.due = t + QueueDelay]

\* processNextInQueue at second t, up to its first await (user ids start at
\* 1, so the guard on a falsy userId never takes effect)
processNextInQueue(q, t) ==
    IF Len(q.queue) = 0
    THEN [q EXCEPT !.isProcessing = FALSE]
    ELSE [q EXCEPT !.queue = Tail(@),
                   !.invocations = Append(@, Invocation(Head(q.queue))),
                   !.started = @ + 1,
                   !.lastStart = t]

\* startProcessing without the look at isProcessing
startProcessingAlways(q, t) ==
    IF Len(q.queue) > 0
    THEN processNextInQueue([q EXCEPT !.isProcessing = TRUE], t)
    ELSE q

startProcessing(q, t) ==
    IF ~q.isProcessing /\ Len(q.queue) > 0
    THEN processNextInQueue([q EXCEPT !.isProcessing = TRUE], t)
    ELSE q

enqueue(q, userId, t) ==
    IF ~\E i \in 1..Len(q.queue) : q.queue[i] = userId
    THEN startProcessing([q EXCEPT !.queue = Append(@, userId)], t)
    ELSE q

\* for (const user of results) emailQueue.enqueue(user.id)
RECURSIVE enqueueAll(_, _, _)
enqueueAll(q, results, t) ==
    IF Len(results) = 0 THEN q
    ELSE enqueueAll(enqueue(q, Head(results), t), Tail(results), t)

\* new EmailQueue(): started counts the users taken off the queue, lastStart
\* is the second the last of them was taken off
NewEmailQueue ==
    [queue |-> <<>>, isProcessing |-> FALSE, invocations |-> <<>>,
     started |-> 0, lastStart |-> 0]

InitQueue ==
    /\ now = BootTime
    /\ nextTick = BootTime + TickInterval
    /\ users \in {InitialUsers, [u \in Users |-> TrialUser(Today + TrialDays - 1)]}
    /\ rows \in {r \in InitialRows : r[1].preferredEmailTime = T0900AM}
    /\ scans = <<>>
    /\ emails = {}
    /\ resp = NoResponse
    /\ nreq = 0
    /\ stripe = NoStripe
    /\ tc = [clock |-> 0,
             intervalDue |-> EmailInterval,   \* 0: the interval is not followed further
             intervals |-> 0,                 \* how often the interval has fired
             isProcessingEmails |-> FALSE,
             emailQueue |-> NewEmailQueue,
             lastOutcome |-> "none"]

\* the seconds at which a timer is due
Dues ==
    (IF tc.intervalDue # 0 THEN {tc.intervalDue} ELSE {})
    \cup {tc.emailQueue.invocations[k].due :
            k \in {j \in 1..Len(tc.emailQueue.invocations) :
                        tc.emailQueue.invocations[j].pc = "timer"}}

\* time passes up to the next timer
QueueAdvance ==
    /\ Dues # {}
    /\ \A due \in Dues : tc.clock < due
    /\ \E due \in Dues :
        /\ \A other \in Dues : due <= other
        /\ tc' = [tc EXCEPT !.clock = due]
        /\ now' = BootTime + (due \div 60)
    /\ UNCHANGED <<nextTick, users, rows, scans, emails, resp, nreq, stripe>>

\* the interval fires: sendQuestionsToAllEligibleUsers up to its await, or
\* its return when a run is in progress
IntervalFires ==
    /\ tc.intervalDue # 0
    /\ tc.intervalDue = tc.clock
    /\ tc' = [tc EXCEPT
                !.intervals = @ + 1,
                !.intervalDue = IF tc.intervals + 1 < MaxIntervals
                                THEN tc.clock + EmailInterval ELSE 0,
                !.isProcessingEmails = TRUE]
    /\ UNCHANGED <<now, nextTick, users, rows, scans, emails, resp, nreq, stripe>>

\* await db.select().from(users) returns and every user is enqueued, or it
\* throws; finally the flag is cleared
SelectUsersReturns ==
    /\ tc.isProcessingEmails
    /\ \/ tc' = [tc EXCEPT
                    !.isProcessingEmails = FALSE,
                    !.emailQueue = enqueueAll(@, getAllUsers, tc.clock)]
       \/ tc' = [tc EXCEPT !.isProcessingEmails = FALSE]
    /\ UNCHANGED <<now, nextTick, users, rows, scans, emails, resp, nreq, stripe>>

\* a follow-up timer fires: processNextInQueue runs up to its first await
QueueTimerFires(k) ==
    /\ tc.emailQueue.invocations[k].pc = "timer"
    /\ tc.emailQueue.invocations[k].due = tc.clock
    /\ tc' = [tc EXCEPT !.emailQueue =
                processNextInQueue(
                    [@ EXCEPT !.invocations = RemoveAt(@, k)], tc.clock)]
    /\ UNCHANGED <<now, nextTick, users, rows, scans, emails, resp, nreq, stripe>>

\* invocation k ends with the given outcome and sets its follow-up timer
FollowUp(k, outcome) ==
    tc' = [tc EXCEPT !.emailQueue.invocations[k] = setTimeout(@, tc.clock),
                     !.lastOutcome = outcome]

\* await db.select()...where(eq(users.id, userId)) returns or throws; the row
\* may be gone from the table
QueueSelectUser(k) ==
    LET invocation == tc.emailQueue.invocations[k]
    IN  /\ invocation.pc = "select"
        /\ \/ FollowUp(k, "error")
           \/ FollowUp(k, "user not found")
           \/ IF isEligible(users[invocation.userId], now)
              THEN tc' = [tc EXCEPT !.emailQueue.invocations[k].pc =
                                        "getStudentProfile"]
              ELSE FollowUp(k, "not eligible")
        /\ UNCHANGED <<now, nextTick, users, rows, scans, emails, resp, nreq, stripe>>

\* await storage.getStudentProfile returns or throws; then the questions of
\* every subject are generated
QueueGetStudentProfile(k) ==
    LET invocation == tc.emailQueue.invocations[k]
        profile == getUserSubjects(invocation.userId)
    IN  /\ invocation.pc = "getStudentProfile"
        /\ \/ FollowUp(k, "error")
           \/ IF Len(profile) = 0
              THEN FollowUp(k, "no profile")
              ELSE IF \E i \in 1..Len(profile) :
                        getDailyQuestions(profile[i].subject, profile[i].grade,
                                          QuestionsPerSubject) = 0
              THEN FollowUp(k, "no questions")
              ELSE tc' = [tc EXCEPT !.emailQueue.invocations[k].pc =
                                        "sendDailyQuestions"]
        /\ UNCHANGED <<now, nextTick, users, rows, scans, emails, resp, nreq, stripe>>

\* await sendDailyQuestions returns, or throws into its own catch
QueueSendDailyQuestions(k) ==
    LET invocation == tc.emailQueue.invocations[k]
    IN  /\ invocation.pc = "sendDailyQuestions"
        /\ \/ /\ emails' = emails \cup
                    {[to |-> invocation.userId,
                      by |-> <<"queue", tc.emailQueue.started>>,
                      at |-> now,
                      preferredTime |-> <<>>,
                      childName |-> <<>>,
                      questions |-> questionsBySubject(
                                        getUserSubjects(invocation.userId))]}
              /\ FollowUp(k, "sent")
           \/ /\ UNCHANGED emails
              /\ FollowUp(k, "send failed")
        /\ UNCHANGED <<now, nextTick, users, rows, scans, resp, nreq, stripe>>

NextQueue ==
    \/ QueueAdvance
    \/ IntervalFires
    \/ SelectUsersReturns
    \/ \E k \in 1..Len(tc.emailQueue.invocations) : QueueTimerFires(k)
    \/ \E k \in 1..Len(tc.emailQueue.invocations) : QueueSelectUser(k)
    \/ \E k \in 1..Len(tc.emailQueue.invocations) : QueueGetStudentProfile(k)
    \/ \E k \in 1..Len(tc.emailQueue.invocations) : QueueSendDailyQuestions(k)

SpecQueue == InitQueue /\ [][NextQueue]_vars

\* every timer that is due fires, and every await settles
SpecQueueFair ==
    /\ SpecQueue
    /\ WF_vars(QueueAdvance)
    /\ WF_vars(IntervalFires)
    /\ WF_vars(SelectUsersReturns)
    /\ WF_vars(\E k \in 1..Len(tc.emailQueue.invocations) : QueueTimerFires(k))
    /\ WF_vars(\E k \in 1..Len(tc.emailQueue.invocations) : QueueSelectUser(k))
    /\ WF_vars(\E k \in 1..Len(tc.emailQueue.invocations) : QueueGetStudentProfile(k))
    /\ WF_vars(\E k \in 1..Len(tc.emailQueue.invocations) : QueueSendDailyQuestions(k))

----------------------------------------------------------------------------
(* What the claims speak of *)

TwoDigits(n) == <<Digits[(n \div 10) + 1], Digits[(n % 10) + 1]>>
NumberOf(text) == CHOOSE n \in 0..99 : TwoDigits(n) = text

\* the 24-hour reading of "HH:MM AM/PM": 12:MM AM is 0:MM, 01..11 AM stay,
\* 12:MM PM is 12:MM, 01..11 PM gain 12
TwentyFourHour(p) ==
    LET h == NumberOf(<<p[1], p[2]>>)
        m == NumberOf(<<p[4], p[5]>>)
    IN  IF p[7] = "A"
        THEN <<IF h = 12 THEN 0 ELSE h, m>>
        ELSE <<IF h = 12 THEN 12 ELSE h + 12, m>>

WallClock(t) == <<getHours(t), getMinutes(t)>>

ScanEmails == {e \in emails : e.by[1] = "scan"}
EmailsTo(u, date) == {e \in ScanEmails : e.to = u /\ toISODate(e.at) = date}
ScansInProgress == {s \in 1..Len(scans) : InProgress(s)}
Range(seq) == {seq[i] : i \in 1..Len(seq)}
SubjectsOf(u) == {r.subject : r \in Range(getUserSubjects(u))}

\* C1: for every user and every calendar date, the scheduler dispatches at
\* most one email to that user on that date, however many ticks occur.
C1_AtMostOneEmailPerUserPerDate ==
    \A u \in Users : \A e \in ScanEmails :
        e.to = u => Cardinality(EmailsTo(u, toISODate(e.at))) <= 1

\* C2: at no time are two scheduler scans in progress at once.
C2_NoOverlappingScans == Cardinality(ScansInProgress) <= 1

\* C3: for every accepted preferred time and every wall-clock (hour, minute),
\* the time check is true exactly when (hour, minute) is the 24-hour
\* conversion of the preferred time.
C3_TimeCheckIsExactMatch ==
    tc.checked =>
        (tc.result <=> WallClock(tc.t) = TwentyFourHour(tc.preferredTime))

\* C3 witness: an afternoon time was checked against its own minute, and matched
C3_Witness ==
    /\ tc.checked /\ tc.result
    /\ tc.preferredTime[7] = "P"
    /\ getHours(tc.t) = 13

\* C4: every enrolled user not yet sent an email today is sent one at the
\* preferred delivery time: once that minute of the day is over, no scan is
\* still running and no scan met an error, the email has been dispatched.
C4_DeliveredAtPreferredTime ==
    \A u \in Users :
        LET us == getUserSubjects(u)
        IN  ( /\ Len(us) > 0
              /\ \A i \in 1..Len(us) :
                    /\ us[i].lastQuestionDate < toISODate(now)
                    /\ us[i].preferredEmailTime = us[1].preferredEmailTime
              /\ toISODate(now) = Today
              /\ 60 * getHours(now) + getMinutes(now) >
                    60 * TwentyFourHour(us[1].preferredEmailTime)[1]
                       + TwentyFourHour(us[1].preferredEmailTime)[2]
              /\ ScansInProgress = {}
              /\ \A s \in 1..Len(scans) :
                    ~scans[s].aborted /\ scans[s].failed = {} )
            => EmailsTo(u, toISODate(now)) # {}

\* C5: the scheduler sends a user an email only from a scan that evaluates
\* the user's time check during the preferred minute: a later tick on the
\* same day never catches up.  (at is the time of that evaluation.)
C5_NoCatchUp ==
    \A e \in ScanEmails : WallClock(e.at) = TwentyFourHour(e.preferredTime)

\* C5 witness: the preferred minute 09:00 of user 1 is over, both the start-up
\* scan and the 09:02 tick's scan went through user 1 without an error, and
\* no email was sent
C5_Witness ==
    /\ Len(scans) = 2
    /\ \A s \in 1..2 :
            /\ scans[s].pc = "done" /\ ~scans[s].aborted
            /\ 1 \in scans[s].visited /\ scans[s].failed = {}
    /\ getUserSubjects(1) = <<Row(1, "math", T0900AM, Today - 1)>>
    /\ WallClock(now) = <<9, 2>>
    /\ emails = {}

\* C6: a failure while processing one user does not abort the scan: every
\* user that follows in the user list is still processed in the same scan.
C6_FailureDoesNotAbortScan ==
    \A s \in 1..Len(scans) :
        LET sc == scans[s]
        IN  /\ \A i \in 1..Len(sc.allUsers) :
                    i <= sc.idx => sc.allUsers[i] \in sc.visited
            /\ (sc.pc = "done" /\ ~sc.aborted) => sc.visited = Range(sc.allUsers)

\* C6 witness: a scan is over in which user 1 failed and user 2 was processed
C6_Witness ==
    \E s \in 1..Len(scans) :
        /\ scans[s].pc = "done"
        /\ 1 \in scans[s].failed
        /\ 2 \in scans[s].visited

\* C7: whenever the scheduler has dispatched an email for a user, then once
\* that user's processing in the scan is finished every enrollment row of the
\* user carries today's date, and the email bundles every enrolled subject.
C7_RowsStampedAfterDispatch ==
    [][\A s \in 1..Len(scans) :
        (scans[s].pc = "update" /\ scans'[s].pc # "update") =>
            LET u == scans[s].allUsers[scans[s].idx]
            IN  /\ \A i \in 1..Len(rows') :
                    rows'[i].user_id = u =>
                        rows'[i].lastQuestionDate = toISODate(now')
                /\ \E e \in emails' :
                    /\ e.by = <<"scan", s>> /\ e.to = u
                    /\ DOMAIN e.questions =
                        {rows'[i].subject : i \in {j \in 1..Len(rows') :
                                                    rows'[j].user_id = u}}]_vars

\* C8: the scheduler dispatches an email only to users whose trial has not
\* ended or who have a paid subscription.
C8_OnlyEligibleUsersAreSent ==
    \A e \in ScanEmails : isEligible(users[e.to], e.at)

\* C9: an authenticated user with neither an active trial nor a paid
\* subscription is answered 402 by the question-listing endpoint and gets no
\* questions (stated for a user who has a profile, when the store answers).
C9_PaymentRequired ==
    ( /\ resp.ep \in {"GET /api/questions", "GET /api/questions (email)"}
      /\ resp.auth
      /\ resp.status \notin {404, 500}
      /\ ~isEligible(users[resp.user], now) )
        => (resp.status = 402 /\ ~resp.generated)

\* C10: a request to create-profile, read-profile, list-questions or
\* subscription creation without an authenticated session is answered 401
\* and writes no profile, generates no questions and dispatches no email.
C10_UnauthenticatedIs401 ==
    [][(nreq' # nreq /\ ~resp'.auth) =>
            /\ resp'.status = 401
            /\ ~resp'.generated
            /\ rows' = rows
            /\ emails' = emails
            /\ users' = users
            /\ stripe' = stripe]_vars

\* C10 witness: after a profile was created, a create-profile request without
\* a session was answered 401
C10_Witness ==
    /\ nreq >= 2
    /\ \E i \in 1..Len(rows) : rows[i].lastQuestionDate = Today
    /\ resp.ep = "POST /api/profile"
    /\ ~resp.auth
    /\ resp.status = 401

IsWebhookStep == nreq' # nreq /\ resp'.ep = "POST /api/stripe-webhook"

SubscriptionState(user) ==
    <<user.isSubscribed, user.stripeCustomerId, user.stripeSubscriptionId>>

\* C11: a user's stored subscription state (subscribed flag, customer and
\* subscription identifiers) changes only when a webhook event is processed,
\* and the subscribed flag becomes true only by a payment-succeeded event for
\* that user.
C11_SubscriptionStateOnlyByWebhook ==
    [][\A u \in Users :
        /\ SubscriptionState(users'[u]) # SubscriptionState(users[u])
                => IsWebhookStep
        /\ (~users[u].isSubscribed /\ users'[u].isSubscribed)
                => /\ IsWebhookStep
                   /\ resp'.event.type = "payment_intent.succeeded"
                   /\ resp'.event.userId = u]_vars

\* C12: a subscription-deleted event sets the subscribed flag to false for
\* the user whose stored customer identifier matches the event and leaves
\* every other user unchanged; an event matching no user, or of an unhandled
\* type, changes no stored state; the event is acknowledged.
C12_SubscriptionDeleted ==
    [][(IsWebhookStep /\ resp'.sigOk
            /\ resp'.event.type # "payment_intent.succeeded") =>
        LET matching == IF resp'.event.type = "customer.subscription.deleted"
                        THEN {u \in Users : users[u].stripeCustomerId =
                                                <<"cus", resp'.event.customer>>}
                        ELSE {}
        IN  /\ resp'.status = 200
            /\ \A u \in matching :
                    users'[u] = [users[u] EXCEPT !.isSubscribed = FALSE]
            /\ \A u \in Users \ matching : users'[u] = users[u]
            /\ rows' = rows /\ stripe' = stripe /\ emails' = emails]_vars

\* C13: a webhook request whose signature does not verify is answered 400 and
\* changes no stored subscription state, whatever event type its body names.
C13_BadSignatureIs400 ==
    [][(IsWebhookStep /\ ~resp'.sigOk) =>
            /\ resp'.status = 400
            /\ users' = users
            /\ stripe' = stripe]_vars

\* C13 witness: a subscription-deleted event for the customer of subscribed
\* user 1 came with a bad signature and was answered 400
C13_Witness ==
    /\ resp.ep = "POST /api/stripe-webhook"
    /\ ~resp.sigOk
    /\ resp.status = 400
    /\ resp.event.type = "customer.subscription.deleted"
    /\ users[1].isSubscribed
    /\ users[1].stripeCustomerId = <<"cus", resp.event.customer>>

\* C14: a profile-creation request (of a logged-in user) whose subjects list
\* is empty is rejected with 400 and creates no enrollment row: the store is
\* unchanged.
C14_EmptySubjectsRejected ==
    [][(nreq' # nreq /\ resp'.ep = "POST /api/profile" /\ resp'.auth
            /\ resp'.request.subjects = <<>>) =>
        /\ resp'.status = 400
        /\ rows' = rows
        /\ users' = users]_vars

\* C14 witness: after a profile was created, a request with no subjects was
\* answered 400
C14_Witness ==
    /\ resp.ep = "POST /api/profile"
    /\ resp.auth
    /\ resp.request.subjects = <<>>
    /\ resp.status = 400
    /\ \E i \in 1..Len(rows) : rows[i].lastQuestionDate = Today

\* C15: after any sequence of profile creations and scheduler ticks, all
\* enrollment rows of one user carry the same preferred delivery time and the
\* same last-sent date.
C15_OneTimeAndDatePerUser ==
    \A i, j \in 1..Len(rows) :
        rows[i].user_id = rows[j].user_id =>
            /\ rows[i].preferredEmailTime = rows[j].preferredEmailTime
            /\ rows[i].lastQuestionDate = rows[j].lastQuestionDate

\* C16: after any sequence of accepted profile-creation requests, the store
\* holds at most one enrollment row per (user, child name, subject).
C16_OneRowPerSubjectPerChild ==
    \A i, j \in 1..Len(rows) :
        ( /\ rows[i].user_id = rows[j].user_id
          /\ rows[i].childName = rows[j].childName
          /\ rows[i].subject = rows[j].subject ) => i = j

QuestionEndpoints == {"GET /api/questions", "GET /api/questions (email)"}

\* the emails a step adds
NewEmails == emails' \ emails

\* C17 as stated: every list-questions request that returns questions also
\* makes exactly one dispatch of an email to the requesting user with those
\* same questions, and a failure of the dispatch leaves the response as it is.
C17_QuestionsAreAlsoEmailed ==
    [][(nreq' # nreq /\ resp'.ep \in QuestionEndpoints /\ resp'.generated) =>
        /\ resp'.status = 200
        /\ "dispatch" \in DOMAIN resp'
        /\ resp'.dispatch = "sent" =>
                \E e \in NewEmails :
                    /\ NewEmails = {e}
                    /\ e.to = resp'.user /\ e.questions = resp'.body]_vars

\* C17 amended: a list-questions request that returns questions dispatches at
\* most one email, to the requesting user and with those same questions
\* grouped by subject; the emailing handler makes exactly one dispatch, and
\* when that fails the questions are still returned with status 200.
C17_AtMostOneEmailSameQuestions ==
    [][(nreq' # nreq /\ resp'.ep \in QuestionEndpoints
            /\ (resp'.generated \/ "dispatch" \in DOMAIN resp')) =>
        /\ resp'.status = 200 /\ resp'.generated
        /\ resp'.body = questionsBySubject(getUserSubjects(resp'.user))
        /\ Cardinality(NewEmails) <= 1
        /\ \A e \in NewEmails :
                e.to = resp'.user /\ e.questions = resp'.body
        /\ resp'.ep = "GET /api/questions (email)" =>
                /\ "dispatch" \in DOMAIN resp'
                /\ resp'.dispatch = "sent" <=> Cardinality(NewEmails) = 1
        /\ resp'.ep = "GET /api/questions" => NewEmails = {}]_vars

\* C17 witness: the emailing handler could not send the email and still
\* answered 200 with the questions of both subjects of user 2
C17_Witness ==
    /\ resp.ep = "GET /api/questions (email)"
    /\ "dispatch" \in DOMAIN resp
    /\ resp.dispatch = "failed"
    /\ resp.status = 200 /\ resp.generated
    /\ resp.user = 2
    /\ DOMAIN resp.body = {"math", "english"}
    /\ emails = {}

Recognized == {"math", "Math", "MATH", "mAtH", "english", "English", "ENGLISH"}

TextNumber(text) ==
    IF \E n \in 0..2500 : NatString(n) = text
    THEN CHOOSE n \in 0..2500 : NatString(n) = text
    ELSE -1

\* C19: for every grade and every choice of random operands, a generated
\* subtraction question has its larger operand first and a non-negative
\* answer.
C19_SubtractionIsNonNegative ==
    (tc.checked /\ tc.question.operation = "-") =>
        /\ tc.question.num1 >= tc.question.num2
        /\ Head(tc.question.answer) # "-"
        /\ TextNumber(tc.question.answer) >= 0

\* C19 witness: the second operand drawn was the larger one, and the question
\* is a subtraction
C19_Witness ==
    /\ tc.checked
    /\ tc.question.operation = "-"
    /\ tc.r2 > tc.r1
    /\ tc.grade = 3
    /\ tc.question.num1 = 50

\* C20: grades 1 and 2 use only addition or subtraction, every other grade
\* may also use multiplication; both operands lie in 1..10 for grade 1, 1..20
\* for grade 2 and 1..50 otherwise; the answer text is the result of the
\* shown operation on the shown operands.
C20_MathQuestionIsWellFormed ==
    tc.checked =>
        LET q == tc.question
            top == CASE q.grade = 1 -> 10 [] q.grade = 2 -> 20 [] OTHER -> 50
        IN  /\ q.grade = tc.grade
            /\ q.operation \in (IF q.grade \in {1, 2} THEN {"+", "-"}
                                 ELSE {"+", "-", "*"})
            /\ q.num1 \in 1..top /\ q.num2 \in 1..top
            /\ TextNumber(q.answer) =
                    CASE q.operation = "+" -> q.num1 + q.num2
                      [] q.operation = "-" -> q.num1 - q.num2
                      [] q.operation = "*" -> q.num1 * q.num2

\* C20 witness: a grade-3 multiplication of the two largest operands, answered
\* "2500"
C20_Witness ==
    /\ tc.checked
    /\ tc.grade = 3
    /\ tc.question.operation = "*"
    /\ tc.question.num1 = 50 /\ tc.question.num2 = 50
    /\ tc.question.answer = <<"2", "5", "0", "0">>

\* C21: each call to the email dispatcher makes at most one send attempt to
\* the provider; when the provider reports an error the call fails with that
\* error, with no retry and no fallback attempt.
C21_OneSendAttempt ==
    /\ Len(tc.attempts) <= 1
    /\ (Len(tc.answers) >= 1 /\ tc.answers[1] # Accepted) =>
            /\ tc.pc = "done"
            /\ tc.outcome = "failed"
            /\ tc.error = tc.answers[1]

\* C23: create-profile answers 400 only when the request body fails
\* validation; a failure of the store while the enrollment rows are inserted
\* is answered with a 5xx status, not as a validation error.
C23_400OnlyOnInvalidBody ==
    (resp.ep = "POST /api/profile" /\ resp.auth /\ insertProfileSchema(resp.request))
        => resp.status \in {200} \cup 500..599

\* the user owns no enrollment row
HasNoRows(u) == \A i \in 1..Len(rows) : rows[i].user_id # u

ReadEndpoints ==
    {"GET /api/profile", "GET /api/questions", "GET /api/questions (email)"}

DispatchFailed(s) ==
    /\ scans[s].pc = "sendDailyQuestions"
    /\ scans'[s] # scans[s]
    /\ ~\E e \in emails' \ emails : e.by = <<"scan", s>>

\* C25: when the email dispatch for a user fails during a scan, the scan does
\* not go on to the update for that user and changes no row, so the user's
\* rows still carry the earlier date for any later tick; a scan is at the
\* update of a user only after its own email to that user.
C25_FailedDispatchLeavesRows ==
    [][\A s \in 1..Len(scans) :
        /\ DispatchFailed(s) =>
                /\ scans'[s].pc # "update"
                /\ scans'[s].idx = scans[s].idx + 1
                /\ scans[s].allUsers[scans[s].idx] \in scans'[s].failed
                /\ rows' = rows
                /\ emails' = emails
        /\ scans'[s].pc = "update" =>
                \E e \in emails' :
                    /\ e.by = <<"scan", s>>
                    /\ e.to = scans'[s].allUsers[scans'[s].idx]]_vars

\* C25 witness: a scan is over in which the dispatch for user 1 failed at
\* 09:02; no email was sent and the row of user 1 still carries yesterday
C25_Witness ==
    \E s \in 1..Len(scans) :
        /\ scans[s].pc = "done"
        /\ scans[s].error = "sendDailyQuestions"
        /\ scans[s].failed = {1}
        /\ emails = {}
        /\ getUserSubjects(1) = <<Row(1, "math", T0902AM, Today - 1)>>

\* C26: a created profile's rows carry the current date as last-sent date, so
\* on the date a profile was created the scheduler calls the dispatch for
\* that user no more: no scan that loaded a row stamped today is at the
\* dispatch, and a new row is stamped with the date of its creation.
C26_NoEmailOnCreationDate ==
    /\ \A s \in 1..Len(scans) :
            scans[s].pc = "sendDailyQuestions" =>
                \A i \in 1..Len(scans[s].userSubjects) :
                    scans[s].userSubjects[i].lastQuestionDate
                        # toISODate(scans[s].calledAt)
    /\ (resp.ep = "POST /api/profile" /\ resp.status = 200) =>
            \E i \in 1..Len(rows) :
                /\ rows[i].user_id = resp.user
                /\ rows[i].lastQuestionDate = toISODate(now)

\* the requests that created a user
Registered == {r \in 1..Len(tc.requests) : tc.requests[r].id # 0}

\* C22: every user created by registration is not subscribed, has no
\* customer and no subscription identifier, and has feature access without
\* payment exactly until 7 days after the creation: before that instant the
\* user is in the trial period, from that instant on no more.
C22_TrialIsSevenDays ==
    \A r \in Registered :
        LET user == users[tc.requests[r].id]
            createdAt == tc.requests[r].at
        IN  /\ ~user.isSubscribed
            /\ user.stripeCustomerId = NULL
            /\ user.stripeSubscriptionId = NULL
            /\ isEligible(user, now) <=> now < createdAt + TrialDays * 1440

\* C28: after any interleaving of registration requests no two stored users
\* share an email address, and a request whose email is already stored when
\* its insert runs is answered 400 and creates no user.
C28_EmailsAreUnique ==
    /\ [](\A i, j \in 1..Len(users) : users[i].email = users[j].email => i = j)
    /\ [][\A r \in 1..Len(tc.requests) :
            ( /\ tc.requests[r].pc = "createUser"
              /\ tc'.requests[r].pc = "done"
              /\ getUserByEmail(tc.requests[r].email) # 0 ) =>
                    /\ tc'.requests[r].status = 400
                    /\ users' = users]_vars

\* the customers and the subscriptions the requests of user u created
CustomersOf(u) ==
    {tc.requests[r].customer :
        r \in {q \in 1..Len(tc.requests) :
                tc.requests[q].user = u /\ tc.requests[q].customer # 0}}
SubscriptionsOf(u) ==
    {tc.requests[r].subscription :
        r \in {q \in 1..Len(tc.requests) :
                tc.requests[q].user = u /\ tc.requests[q].subscription # 0}}

\* C27: over any sequence or interleaving of create-or-fetch-subscription
\* requests of one user at most one customer and at most one subscription
\* are created for that user, and a request of a user whose stored
\* subscription identifier is set only fetches: it creates neither.
C27_AtMostOneCustomerAndSubscription ==
    /\ \A u \in Users :
            /\ Cardinality(CustomersOf(u)) <= 1
            /\ Cardinality(SubscriptionsOf(u)) <= 1
    /\ \A r \in 1..Len(tc.requests) :
            tc.requests[r].stripeSubscriptionId # NULL =>
                tc.requests[r].customer = 0 /\ tc.requests[r].subscription = 0

\* the user the chain is processing, if any
Processing(u) ==
    \E k \in 1..Len(tc.emailQueue.invocations) :
        /\ tc.emailQueue.invocations[k].userId = u
        /\ tc.emailQueue.invocations[k].pc # "timer"

Queued(u) == \E i \in 1..Len(tc.emailQueue.queue) : tc.emailQueue.queue[i] = u

\* C29: in the email queue at most one processing chain is active at any
\* time and no user id is in the queue twice; the in-progress flag is true
\* exactly while a user is being processed or a follow-up timer is pending;
\* a step that adds ids to the queue adds only ids that were not queued, and
\* a chain is started only when the flag was false.
C29_OneChainNoDuplicates ==
    /\ [](/\ Len(tc.emailQueue.invocations) <= 1
          /\ \A i, j \in 1..Len(tc.emailQueue.queue) :
                tc.emailQueue.queue[i] = tc.emailQueue.queue[j] => i = j
          /\ tc.emailQueue.isProcessing <=> Len(tc.emailQueue.invocations) = 1)
    /\ [][/\ Len(tc'.emailQueue.invocations) > Len(tc.emailQueue.invocations)
                => ~tc.emailQueue.isProcessing
          /\ \A u \in Users :
                (Queued(u) /\ tc'.emailQueue.started = tc.emailQueue.started)
                    => Cardinality({i \in 1..Len(tc'.emailQueue.queue) :
                                        tc'.emailQueue.queue[i] = u}) = 1]_vars

\* C29 witness: both users were enqueued again while user 2 of the round
\* before was still being processed: user 1 waits in the queue once, user 2
\* was added again, and there is one chain
C29_Witness ==
    /\ tc.intervals = 2
    /\ ~tc.isProcessingEmails
    /\ tc.emailQueue.queue = <<1, 2>>
    /\ tc.emailQueue.isProcessing
    /\ Len(tc.emailQueue.invocations) = 1
    /\ Processing(2)

====
